---- MODULE Spec2Model ----
(***************************************************************************)
(* Model of the transaction-builder helpers:                               *)
(*   - launchPumpFunToken / uploadMetadata / createTokenTransaction        *)
(*   - validateSuiAddress / validateSuiCoinType (src/utils/sui.ts)         *)
(*                                                                         *)
(* An async function runs synchronously up to its next `await`; every      *)
(* action below is one such segment: it starts when the awaited promise    *)
(* settles and runs to the next await, to the return or through the catch  *)
(* block to the rethrow.  The remote endpoints, the image host and the     *)
(* @solana/web3.js calls are the environment: their outcomes are chosen    *)
(* nondeterministically from small sets.                                   *)
(***************************************************************************)
EXTENDS Integers, Sequences, FiniteSets, TLC

\* Number of launchPumpFunToken invocations that may be in flight together.
MaxLaunches == 2

Launches == 1..MaxLaunches

VARIABLES
    pc,               \* per launch: the await it is suspended at, or its end
    mintKeypair,      \* per launch: the local const mintKeypair (<<>> before)
    generated,        \* per launch: number of Keypair.generate() calls made
    options,          \* per launch: the options argument
    trace,            \* per launch: external steps started, in order
    done,             \* per launch: external steps completed successfully
    imageResponse,    \* per launch: the image host's response, once resolved
    metadataHttp,     \* per launch: the metadata endpoint's HTTP response
    metadataResponse, \* per launch: the parsed JSON body of the upload
    request,          \* per launch: the payload POSTed to the trade endpoint
    tradeHttp,        \* per launch: the trade endpoint's HTTP response
    tradeText,        \* per launch: the text read from a non-ok trade response
    imageFailure,     \* per launch: what the image fetch or blob rejected with
    raised,           \* per launch: the error a step raised into the try block
    thrown,           \* per launch: the error the caller received
    result,           \* per launch: the value the caller received
    catchTrace,       \* per launch: what its catch block did, in order
    ctOptions,        \* a createTokenTransaction call alone: its options
    ctPayload,        \* ... and the payload it built
    address,          \* the string validateSuiAddress is called with
    addressCalls,     \* the outcomes of the calls made with it, in order
    coinPc,           \* validateSuiCoinType: where the call is
    coinType,         \* ... its argument
    coinLookup,       \* ... what suiClient.getCoinMetadata settled with
    coinThrown        \* ... the error its caller received

launchVars == <<pc, mintKeypair, generated, options, trace, done, imageResponse,
                metadataHttp, metadataResponse, request, tradeHttp, tradeText,
                imageFailure, raised, thrown, result, catchTrace>>

payloadVars == <<ctOptions, ctPayload>>

suiVars == <<address, addressCalls, coinPc, coinType, coinLookup, coinThrown>>

vars == <<launchVars, payloadVars, suiVars>>

\* Calls of validateSuiAddress made with one string.
MaxCalls == 2

\* Longest string validateSuiAddress is called with.
MaxAddressLen == 67

-----------------------------------------------------------------------------
(* Values of the environment *)

\* Values a rejected promise or a throwing SDK call may carry: a plain
\* Error, an Error with a "logs" field (e.g. SendTransactionError), and a
\* thrown non-Error object that has a "logs" field.
ExtErrors ==
    { [isError |-> TRUE,  hasLogs |-> FALSE, message |-> <<"network error">>,
       logs |-> <<>>],
      [isError |-> TRUE,  hasLogs |-> TRUE,  message |-> <<"simulation failed">>,
       logs |-> <<"Program log: custom program error">>],
      [isError |-> FALSE, hasLogs |-> TRUE,  message |-> <<>>,
       logs |-> <<"not an Error">>] }

\* HTTP responses of the image host: uploadMetadata never looks at the status.
ImageResponses == { [status |-> 200], [status |-> 404] }

\* HTTP responses of the metadata endpoint.
MetadataResponses ==
    { [status |-> 200, statusText |-> "OK"],
      [status |-> 500, statusText |-> "Internal Server Error"] }

\* Parsed JSON bodies of the metadata endpoint; the second lacks `metadata`.
MetadataBodies ==
    { [metadata |-> [name |-> "T", symbol |-> "TICK"], metadataUri |-> "ipfs://x"],
      [metadataUri |-> "ipfs://x"] }

\* HTTP statuses of the trade endpoint and the texts of its error bodies.
TradeStatuses == {200, 400}
TradeTexts == {"Bad Request"}

\* The options bag the concurrent launches are called with (number fields
\* only; a field that is not in the domain is absent).
LaunchOptions == { [slippageBps |-> 50] }

\* What the trade endpoint may answer with a 2xx status: bytes that are no
\* transaction, a transaction that does not list the mint as a signer, a
\* transaction the SDK refuses to serialize, and a well-formed transaction.
TradeBodyKinds == {"malformed", "foreignSigners", "unserializable", "good"}

\* The caller's publicKey argument: the public key of a wallet whose secret
\* (named 0 here) the program never sees.
UserPublicKey == <<"pub", 0>>

-----------------------------------------------------------------------------
(* Keys, transactions and encodings (the @solana/web3.js side) *)

PublicKeyOf(secret) == <<"pub", secret>>

\* Keypair.generate(): a key nobody else holds.  The draw of launch i is
\* named by i; distinct draws are distinct keys.
KeypairGenerate(i) == [secretKey |-> i, publicKey |-> PublicKeyOf(i)]

\* The bytes the trade endpoint builds for a request.
TradeBody(kind, req) ==
    [wellFormed   |-> kind # "malformed",
     serializable |-> kind # "unserializable",
     signerKeys   |-> IF kind = "foreignSigners"
                      THEN {req.publicKey}
                      ELSE {req.publicKey, req.mint},
     signatures   |-> {}]

\* VersionedTransaction.deserialize: bytes -> transaction object.
Deserialize(bytes) ==
    [message    |-> [signerKeys |-> bytes.signerKeys,
                     serializable |-> bytes.serializable],
     signatures |-> bytes.signatures]

\* VersionedTransaction.sign refuses a key the message does not list.
CanSign(tx, kp) == kp.publicKey \in tx.message.signerKeys

\* Mutant of Sign: the transaction goes on unsigned.
SignSkipped(tx, kp) == tx

\* tx.sign([kp]): the signature slot of kp's public key is filled by kp.
Sign(tx, kp) ==
    [tx EXCEPT !.signatures =
        {s \in @ : s.key # kp.publicKey}
            \cup {[key |-> kp.publicKey, by |-> kp.secretKey]}]

\* tx.serialize(): transaction object -> bytes.
Serialize(tx) ==
    [wellFormed   |-> TRUE,
     serializable |-> tx.message.serializable,
     signerKeys   |-> tx.message.signerKeys,
     signatures   |-> tx.signatures]

\* btoa(String.fromCharCode(...bytes)).
Base64(bytes) == [encoding |-> "base64", bytes |-> bytes]

-----------------------------------------------------------------------------
(* Errors *)

\* new Error(message)
NewError(message) ==
    [isError |-> TRUE, hasLogs |-> FALSE, message |-> message, logs |-> <<>>]

\* `${error}`: "Error: <message>" for an Error, "[object Object]" otherwise.
ErrorToString(e) ==
    IF e.isError THEN <<"Error: ">> \o e.message ELSE <<"[object Object]">>

\* The TypeError of reading `.name` of undefined.
TypeErrorUndefined ==
    NewError(<<"Cannot read properties of undefined (reading 'name')">>)

\* response.ok
Ok(status) == status \in 200..299

\* uploadMetadata's and createTokenTransaction's own errors.
ImageFetchError(e) == NewError(<<"Failed to fetch image: ">> \o ErrorToString(e))

MetadataPostError(e) ==
    NewError(<<"Failed to upload metadata: ">> \o ErrorToString(e))

MetadataStatusError(resp) ==
    NewError(<<"Metadata upload failed: ", resp.statusText>>)

\* Mutant of TradeStatusError: the response body text is left out.
TradeStatusErrorNoText(status, text) ==
    NewError(<<"Transaction creation failed: ", ToString(status)>>)

\* Mutant of MetadataUploadFailed: the status is never looked at.
MetadataUploadUnchecked(resp) == FALSE

TradeStatusError(status, text) ==
    NewError(<<"Transaction creation failed: ", ToString(status), " - ", text>>)

\* if (!metadataResponse.ok)
MetadataUploadFailed(resp) == ~Ok(resp.status)

\* if (!response.ok)
TradeRequestFailed(status) == ~Ok(status)

-----------------------------------------------------------------------------
(* createTokenTransaction: the payload *)

\* Priority fees are counted in units of 0.0001 SOL.
DefaultAmount == 0
DefaultSlippage == 10
DefaultPriorityFee == 1

\* options?.field || dflt: the default is taken when the field is absent
\* and when its value is falsy (0 for a number).
OrDefault(opts, field, dflt) ==
    IF field \in DOMAIN opts /\ opts[field] # 0 THEN opts[field] ELSE dflt

createPayload(publicKey, kp, meta, opts) ==
    [publicKey       |-> publicKey,
     action          |-> "create",
     tokenMetadata   |-> [name   |-> meta.metadata.name,
                          symbol |-> meta.metadata.symbol,
                          uri    |-> meta.metadataUri],
     mint            |-> kp.publicKey,
     denominatedInSol |-> "true",
     amount          |-> OrDefault(opts, "initialBuyAmount", DefaultAmount),
     slippage        |-> OrDefault(opts, "slippageBps", DefaultSlippage),
     priorityFee     |-> OrDefault(opts, "priorityFee", DefaultPriorityFee),
     pool            |-> "pump"]

-----------------------------------------------------------------------------
(* launchPumpFunToken: the catch block *)

\* Mutant of CatchBlock: the logs are written for anything that has a "logs"
\* field, an Error or not.
CatchBlockAnyLogs(error) ==
    <<[effect |-> "console.error", label |-> "Error in launchpumpfuntoken:",
       error |-> error]>>
    \o (IF error.hasLogs
        THEN <<[effect |-> "console.error", label |-> "Transaction logs:",
                logs |-> error.logs]>>
        ELSE <<>>)
    \o <<[effect |-> "throw", error |-> error]>>

\* What the catch block does with the error it caught, in order:
\* console.error of the error, console.error of its logs when it is an Error
\* with a "logs" field, then `throw error`.
CatchBlock(error) ==
    <<[effect |-> "console.error", label |-> "Error in launchpumpfuntoken:",
       error |-> error]>>
    \o (IF error.isError /\ error.hasLogs
        THEN <<[effect |-> "console.error", label |-> "Transaction logs:",
                logs |-> error.logs]>>
        ELSE <<>>)
    \o <<[effect |-> "throw", error |-> error]>>

\* Mutant of Fail: the catch block logs and returns an empty transaction
\* string instead of rethrowing.
FailReturnsEmpty(i, error) ==
    /\ raised' = [raised EXCEPT ![i] = <<error>>]
    /\ catchTrace' = [catchTrace EXCEPT ![i] =
           @ \o SubSeq(CatchBlock(error), 1, Len(CatchBlock(error)) - 1)]
    /\ result' = [result EXCEPT ![i] =
           <<Base64([wellFormed |-> FALSE, serializable |-> FALSE,
                     signerKeys |-> {}, signatures |-> {}])>>]
    /\ pc' = [pc EXCEPT ![i] = "returned"]
    /\ UNCHANGED thrown

\* A step of launch i raises `error` inside the try block: the catch block
\* runs, its throw ends the call and nothing is returned.
Fail(i, error) ==
    /\ raised' = [raised EXCEPT ![i] = <<error>>]
    /\ catchTrace' = [catchTrace EXCEPT ![i] = @ \o CatchBlock(error)]
    /\ thrown' = [thrown EXCEPT ![i] =
           <<CatchBlock(error)[Len(CatchBlock(error))].error>>]
    /\ pc' = [pc EXCEPT ![i] = "thrown"]
    /\ UNCHANGED result

\* Launch i goes on to its next await.
Continue(i, next) ==
    /\ pc' = [pc EXCEPT ![i] = next]
    /\ UNCHANGED <<raised, catchTrace, thrown, result>>

Started(i, step) == trace' = [trace EXCEPT ![i] = Append(@, step)]
Completed(i, step) == done' = [done EXCEPT ![i] = Append(@, step)]

-----------------------------------------------------------------------------
(* Initial state: no launch has been called *)

LaunchInit ==
    /\ pc = [i \in Launches |-> "idle"]
    /\ mintKeypair = [i \in Launches |-> <<>>]
    /\ generated = [i \in Launches |-> 0]
    /\ options = [i \in Launches |-> <<>>]
    /\ trace = [i \in Launches |-> <<>>]
    /\ done = [i \in Launches |-> <<>>]
    /\ imageResponse = [i \in Launches |-> <<>>]
    /\ metadataHttp = [i \in Launches |-> <<>>]
    /\ metadataResponse = [i \in Launches |-> <<>>]
    /\ request = [i \in Launches |-> <<>>]
    /\ tradeHttp = [i \in Launches |-> <<>>]
    /\ tradeText = [i \in Launches |-> <<>>]
    /\ raised = [i \in Launches |-> <<>>]
    /\ thrown = [i \in Launches |-> <<>>]
    /\ result = [i \in Launches |-> <<>>]
    /\ catchTrace = [i \in Launches |-> <<>>]
    /\ imageFailure = [i \in Launches |-> <<>>]

\* No createTokenTransaction call of its own.
PayloadIdle == ctOptions = <<>> /\ ctPayload = <<>>

\* No validator call.
SuiIdle ==
    /\ address = <<>>
    /\ addressCalls = <<>>
    /\ coinPc = "idle"
    /\ coinType = <<>>
    /\ coinLookup = <<>>
    /\ coinThrown = <<>>

Init == LaunchInit /\ PayloadIdle /\ SuiIdle

-----------------------------------------------------------------------------
(* launchPumpFunToken, one action per segment between awaits *)

\* Mutant of DeclareMintKeypair: one module-level variable for all calls.
DeclareMintKeypairShared(i, kp) == [j \in Launches |-> <<kp>>]

\* const mintKeypair = ...: a local of the invocation.
DeclareMintKeypair(i, kp) == [mintKeypair EXCEPT ![i] = <<kp>>]

\* The call: Keypair.generate(), then uploadMetadata builds its form fields
\* and awaits fetch(imageUrl).
Launch(i, opts) ==
    /\ pc[i] = "idle"
    /\ mintKeypair' = DeclareMintKeypair(i, KeypairGenerate(i))
    /\ generated' = [generated EXCEPT ![i] = @ + 1]
    /\ options' = [options EXCEPT ![i] = <<opts>>]
    /\ Started(i, "imageFetch")
    /\ Continue(i, "awaitImageFetch")
    /\ UNCHANGED <<done, imageResponse, metadataHttp, metadataResponse,
                   request, tradeHttp, tradeText, imageFailure>>
    /\ UNCHANGED <<payloadVars, suiVars>>

\* Mutant of ImageFetchRejects: the rejection is swallowed and the form is
\* POSTed without the image.
ImageFetchRejectsSwallowed(i, e) ==
    /\ pc[i] = "awaitImageFetch"
    /\ imageFailure' = [imageFailure EXCEPT ![i] = <<e>>]
    /\ Started(i, "metadataPost")
    /\ Continue(i, "awaitMetadataPost")
    /\ UNCHANGED <<mintKeypair, generated, options, done, imageResponse,
                   metadataHttp, metadataResponse, request, tradeHttp, tradeText>>
    /\ UNCHANGED <<payloadVars, suiVars>>

\* fetch(imageUrl) rejects: wrapped as "Failed to fetch image: ...".
ImageFetchRejects(i, e) ==
    /\ pc[i] = "awaitImageFetch"
    /\ imageFailure' = [imageFailure EXCEPT ![i] = <<e>>]
    /\ Fail(i, ImageFetchError(e))
    /\ UNCHANGED <<mintKeypair, generated, options, trace, done, imageResponse,
                   metadataHttp, metadataResponse, request, tradeHttp, tradeText>>
    /\ UNCHANGED <<payloadVars, suiVars>>

\* fetch(imageUrl) resolves, whatever its status: await imageResponse.blob().
ImageFetchResolves(i, resp) ==
    /\ pc[i] = "awaitImageFetch"
    /\ imageResponse' = [imageResponse EXCEPT ![i] = <<resp>>]
    /\ Completed(i, "imageFetch")
    /\ Started(i, "imageBlob")
    /\ Continue(i, "awaitImageBlob")
    /\ UNCHANGED <<mintKeypair, generated, options, metadataHttp,
                   metadataResponse, request, tradeHttp, tradeText, imageFailure>>
    /\ UNCHANGED <<payloadVars, suiVars>>

\* imageResponse.blob() rejects: the same catch, the same wrapping.
ImageBlobRejects(i, e) ==
    /\ pc[i] = "awaitImageBlob"
    /\ imageFailure' = [imageFailure EXCEPT ![i] = <<e>>]
    /\ Fail(i, ImageFetchError(e))
    /\ UNCHANGED <<mintKeypair, generated, options, trace, done, imageResponse,
                   metadataHttp, metadataResponse, request, tradeHttp, tradeText>>
    /\ UNCHANGED <<payloadVars, suiVars>>

\* The blob is read: the multipart form is built and POSTed to
\* https://pump.fun/api/ipfs.
ImageBlobResolves(i) ==
    /\ pc[i] = "awaitImageBlob"
    /\ Completed(i, "imageBlob")
    /\ Started(i, "metadataPost")
    /\ Continue(i, "awaitMetadataPost")
    /\ UNCHANGED <<mintKeypair, generated, options, imageResponse, metadataHttp,
                   metadataResponse, request, tradeHttp, tradeText, imageFailure>>
    /\ UNCHANGED <<payloadVars, suiVars>>

\* The metadata POST rejects: wrapped as "Failed to upload metadata: ...".
MetadataPostRejects(i, e) ==
    /\ pc[i] = "awaitMetadataPost"
    /\ Fail(i, MetadataPostError(e))
    /\ UNCHANGED <<mintKeypair, generated, options, trace, done, imageResponse,
                   metadataHttp, metadataResponse, request, tradeHttp, tradeText, imageFailure>>
    /\ UNCHANGED <<payloadVars, suiVars>>

\* The metadata POST resolves: a non-ok status throws with the status text,
\* an ok status goes on to await metadataResponse.json().
MetadataPostResolves(i, resp) ==
    /\ pc[i] = "awaitMetadataPost"
    /\ metadataHttp' = [metadataHttp EXCEPT ![i] = <<resp>>]
    /\ IF MetadataUploadFailed(resp)
       THEN /\ Fail(i, MetadataStatusError(resp))
            /\ UNCHANGED <<trace, done>>
       ELSE /\ Completed(i, "metadataPost")
            /\ Started(i, "metadataJson")
            /\ Continue(i, "awaitMetadataJson")
    /\ UNCHANGED <<mintKeypair, generated, options, imageResponse,
                   metadataResponse, request, tradeHttp, tradeText, imageFailure>>
    /\ UNCHANGED <<payloadVars, suiVars>>

\* metadataResponse.json() rejects: nothing wraps it.
MetadataJsonRejects(i, e) ==
    /\ pc[i] = "awaitMetadataJson"
    /\ Fail(i, e)
    /\ UNCHANGED <<mintKeypair, generated, options, trace, done, imageResponse,
                   metadataHttp, metadataResponse, request, tradeHttp, tradeText, imageFailure>>
    /\ UNCHANGED <<payloadVars, suiVars>>

\* The body is parsed and returned to launchPumpFunToken, which calls
\* createTokenTransaction: the payload is built (a TypeError when the body
\* has no `metadata`) and POSTed to https://pumpportal.fun/api/trade-local.
MetadataJsonResolves(i, body) ==
    /\ pc[i] = "awaitMetadataJson"
    /\ metadataResponse' = [metadataResponse EXCEPT ![i] = <<body>>]
    /\ Completed(i, "metadataJson")
    /\ IF "metadata" \notin DOMAIN body
       THEN /\ Fail(i, TypeErrorUndefined)
            /\ UNCHANGED <<trace, request>>
       ELSE /\ request' = [request EXCEPT ![i] =
                   <<createPayload(UserPublicKey, mintKeypair[i][1], body,
                                   options[i][1])>>]
            /\ Started(i, "tradePost")
            /\ Continue(i, "awaitTradePost")
    /\ UNCHANGED <<mintKeypair, generated, options, imageResponse, metadataHttp,
                   tradeHttp, tradeText, imageFailure>>
    /\ UNCHANGED <<payloadVars, suiVars>>

\* The trade POST rejects: nothing wraps it.
TradePostRejects(i, e) ==
    /\ pc[i] = "awaitTradePost"
    /\ Fail(i, e)
    /\ UNCHANGED <<mintKeypair, generated, options, trace, done, imageResponse,
                   metadataHttp, metadataResponse, request, tradeHttp, tradeText, imageFailure>>
    /\ UNCHANGED <<payloadVars, suiVars>>

\* The trade POST resolves: a non-ok status goes on to await response.text(),
\* an ok status returns the response to launchPumpFunToken, which awaits
\* response.arrayBuffer().
TradePostResolves(i, status) ==
    /\ pc[i] = "awaitTradePost"
    /\ tradeHttp' = [tradeHttp EXCEPT ![i] = <<[status |-> status]>>]
    /\ IF TradeRequestFailed(status)
       THEN /\ Started(i, "tradeText")
            /\ Continue(i, "awaitTradeText")
            /\ UNCHANGED done
       ELSE /\ Completed(i, "tradePost")
            /\ Started(i, "bodyRead")
            /\ Continue(i, "awaitBodyRead")
    /\ UNCHANGED <<mintKeypair, generated, options, imageResponse, metadataHttp,
                   metadataResponse, request, tradeText, imageFailure>>
    /\ UNCHANGED <<payloadVars, suiVars>>

\* response.text() of the non-ok response rejects: nothing wraps it.
TradeTextRejects(i, e) ==
    /\ pc[i] = "awaitTradeText"
    /\ Fail(i, e)
    /\ UNCHANGED <<mintKeypair, generated, options, trace, done, imageResponse,
                   metadataHttp, metadataResponse, request, tradeHttp, tradeText, imageFailure>>
    /\ UNCHANGED <<payloadVars, suiVars>>

\* The error text is read: throw with the status and the text.
TradeTextResolves(i, text) ==
    /\ pc[i] = "awaitTradeText"
    /\ tradeText' = [tradeText EXCEPT ![i] = <<text>>]
    /\ Fail(i, TradeStatusError(tradeHttp[i][1].status, text))
    /\ UNCHANGED <<mintKeypair, generated, options, trace, done, imageResponse,
                   metadataHttp, metadataResponse, request, tradeHttp, imageFailure>>
    /\ UNCHANGED <<payloadVars, suiVars>>

\* response.arrayBuffer() rejects.
BodyReadRejects(i, e) ==
    /\ pc[i] = "awaitBodyRead"
    /\ Fail(i, e)
    /\ UNCHANGED <<mintKeypair, generated, options, trace, done, imageResponse,
                   metadataHttp, metadataResponse, request, tradeHttp, tradeText, imageFailure>>
    /\ UNCHANGED <<payloadVars, suiVars>>

\* The synchronous tail after the body is read: deserialize, sign with the
\* mint keypair, serialize, base64.  The steps started, the steps completed
\* and either the value returned or the error of the SDK call that threw.
SignedTail(bytes, kp) ==
    IF ~bytes.wellFormed
    THEN [started |-> <<"deserialize">>, completed |-> <<>>, value |-> <<>>,
          error |-> <<NewError(<<"Reached end of buffer unexpectedly">>)>>]
    ELSE IF ~CanSign(Deserialize(bytes), kp)
    THEN [started |-> <<"deserialize", "sign">>,
          completed |-> <<"deserialize">>, value |-> <<>>,
          error |-> <<NewError(<<"Cannot sign with non signer key">>)>>]
    ELSE IF ~bytes.serializable
    THEN [started |-> <<"deserialize", "sign", "serialize">>,
          completed |-> <<"deserialize", "sign">>, value |-> <<>>,
          error |-> <<NewError(<<"Expected signatures length to be equal">>)>>]
    ELSE [started |-> <<"deserialize", "sign", "serialize">>,
          completed |-> <<"deserialize", "sign", "serialize">>,
          value |-> <<Base64(Serialize(Sign(Deserialize(bytes), kp)))>>,
          error |-> <<>>]

\* The body is read; the tail runs without another await and ends the call,
\* by the return or by the error of the SDK call that threw.
BodyReadResolves(i, kind) ==
    /\ pc[i] = "awaitBodyRead"
    /\ LET tail == SignedTail(TradeBody(kind, request[i][1]), mintKeypair[i][1])
       IN  /\ trace' = [trace EXCEPT ![i] = @ \o tail.started]
           /\ done' = [done EXCEPT ![i] = Append(@, "bodyRead") \o tail.completed]
           /\ IF tail.error # <<>>
              THEN Fail(i, tail.error[1])
              ELSE /\ result' = [result EXCEPT ![i] = tail.value]
                   /\ pc' = [pc EXCEPT ![i] = "returned"]
                   /\ UNCHANGED <<raised, catchTrace, thrown>>
    /\ UNCHANGED <<mintKeypair, generated, options, imageResponse, metadataHttp,
                   metadataResponse, request, tradeHttp, tradeText, imageFailure>>
    /\ UNCHANGED <<payloadVars, suiVars>>

LaunchStep(i) ==
    \/ \E opts \in LaunchOptions : Launch(i, opts)
    \/ \E e \in ExtErrors : ImageFetchRejects(i, e)
    \/ \E resp \in ImageResponses : ImageFetchResolves(i, resp)
    \/ \E e \in ExtErrors : ImageBlobRejects(i, e)
    \/ ImageBlobResolves(i)
    \/ \E e \in ExtErrors : MetadataPostRejects(i, e)
    \/ \E resp \in MetadataResponses : MetadataPostResolves(i, resp)
    \/ \E e \in ExtErrors : MetadataJsonRejects(i, e)
    \/ \E body \in MetadataBodies : MetadataJsonResolves(i, body)
    \/ \E e \in ExtErrors : TradePostRejects(i, e)
    \/ \E status \in TradeStatuses : TradePostResolves(i, status)
    \/ \E e \in ExtErrors : TradeTextRejects(i, e)
    \/ \E text \in TradeTexts : TradeTextResolves(i, text)
    \/ \E e \in ExtErrors : BodyReadRejects(i, e)
    \/ \E kind \in TradeBodyKinds : BodyReadResolves(i, kind)

Next == \E i \in Launches : LaunchStep(i)

Spec == Init /\ [][Next]_vars

-----------------------------------------------------------------------------
(* createTokenTransaction's payload as a function of the options *)

OptionFields == {"initialBuyAmount", "slippageBps", "priorityFee"}

OptionValues == {0, 1, 10, 50}

\* Every options bag: each field absent or supplied with one of the values.
OptionBags == UNION {[S -> OptionValues] : S \in SUBSET OptionFields}

PayloadInit ==
    /\ LaunchInit
    /\ SuiIdle
    /\ ctOptions \in {<<opts>> : opts \in OptionBags}
    /\ ctPayload = <<>>

\* createTokenTransaction builds its payload from the options it was given.
BuildPayload ==
    /\ ctOptions # <<>>
    /\ ctPayload = <<>>
    /\ \E body \in {b \in MetadataBodies : "metadata" \in DOMAIN b} :
           ctPayload' = <<createPayload(UserPublicKey, KeypairGenerate(1), body,
                                        ctOptions[1])>>
    /\ UNCHANGED <<launchVars, suiVars, ctOptions>>

PayloadNext == BuildPayload

SpecPayload == PayloadInit /\ [][PayloadNext]_vars

-----------------------------------------------------------------------------
(* src/utils/sui.ts *)

\* Strings are sequences of characters.
StartsWith(str, prefix) ==
    Len(str) >= Len(prefix) /\ SubSeq(str, 1, Len(prefix)) = prefix

\* `needle` occurs in `str`.
Includes(str, needle) ==
    \E k \in 0..(Len(str) - Len(needle)) :
        SubSeq(str, k + 1, k + Len(needle)) = needle

Chars(text) == <<text>>

SuiAddressLength == 66

\* Mutant of validateSuiAddress: `&&` for `||`.
validateSuiAddressAnd(addr) ==
    IF ~StartsWith(addr, <<"0", "x">>) /\ Len(addr) # SuiAddressLength
    THEN [threw |-> TRUE,
          error |-> <<NewError(addr \o Chars(" is not a valid Sui address."))>>]
    ELSE [threw |-> FALSE, error |-> <<>>]

\* validateSuiAddress: throws or returns nothing.
validateSuiAddress(addr) ==
    IF ~StartsWith(addr, <<"0", "x">>) \/ Len(addr) # SuiAddressLength
    THEN [threw |-> TRUE,
          error |-> <<NewError(addr \o Chars(" is not a valid Sui address."))>>]
    ELSE [threw |-> FALSE, error |-> <<>>]

\* The strings the validator is tried on: every head of at most two
\* characters, followed by any number of hex digits up to MaxAddressLen.
Heads ==
    {<<>>} \cup {<<a>> : a \in {"0", "x", "f"}}
           \cup {<<a, b>> : a \in {"0", "x", "f"}, b \in {"0", "x", "f"}}

Fill(n) == [k \in 1..n |-> "f"]

AddressInputs ==
    {h \o Fill(n) : h \in Heads, n \in 0..(MaxAddressLen - 2)}

\* What suiClient.getCoinMetadata may resolve with.
LookupResults ==
    { [kind |-> "null"], [kind |-> "undefined"],
      [kind |-> "object", symbol |-> "SUI"], [kind |-> "object", symbol |-> ""] }

\* !coinTypeObject
Falsy(value) == value.kind \in {"null", "undefined"}

CoinTypes == {"0x2::sui::SUI", "not a coin type"}

CoinTypeError(type) == NewError(<<type, " is not a valid Sui coin type.">>)

\* Mutant of CoinTypeCatch: the catch block rethrows what it caught.
CoinTypeCatchRethrows(type, caught) == caught

\* catch (error) { throw new Error(...) }: what was caught is dropped.
CoinTypeCatch(type, caught) == CoinTypeError(type)

SuiInit ==
    /\ LaunchInit
    /\ PayloadIdle
    /\ address \in {<<a>> : a \in AddressInputs}
    /\ addressCalls = <<>>
    /\ coinPc = "idle"
    /\ coinType = <<>>
    /\ coinLookup = <<>>
    /\ coinThrown = <<>>

\* A call validateSuiAddress(address).
ValidateAddress ==
    /\ Len(addressCalls) < MaxCalls
    /\ addressCalls' = Append(addressCalls, validateSuiAddress(address[1]))
    /\ UNCHANGED <<launchVars, payloadVars, address, coinPc, coinType,
                   coinLookup, coinThrown>>

\* The call validateSuiCoinType(type): up to the await of getCoinMetadata.
ValidateCoinType(type) ==
    /\ coinPc = "idle"
    /\ coinType' = <<type>>
    /\ coinPc' = "awaitLookup"
    /\ UNCHANGED <<launchVars, payloadVars, address, addressCalls, coinLookup,
                   coinThrown>>

\* getCoinMetadata rejects: the catch block.
LookupRejects(e) ==
    /\ coinPc = "awaitLookup"
    /\ coinLookup' = <<[rejected |-> TRUE, error |-> e]>>
    /\ coinThrown' = <<CoinTypeCatch(coinType[1], e)>>
    /\ coinPc' = "thrown"
    /\ UNCHANGED <<launchVars, payloadVars, address, addressCalls, coinType>>

\* getCoinMetadata resolves: a falsy value throws inside the try block, which
\* the catch block catches; anything else returns.
LookupResolves(value) ==
    /\ coinPc = "awaitLookup"
    /\ coinLookup' = <<[rejected |-> FALSE, value |-> value]>>
    /\ IF Falsy(value)
       THEN /\ coinThrown' =
                   <<CoinTypeCatch(coinType[1], CoinTypeError(coinType[1]))>>
            /\ coinPc' = "thrown"
       ELSE /\ coinPc' = "returned"
            /\ UNCHANGED coinThrown
    /\ UNCHANGED <<launchVars, payloadVars, address, addressCalls, coinType>>

SuiNext ==
    \/ ValidateAddress
    \/ \E type \in CoinTypes : ValidateCoinType(type)
    \/ \E e \in ExtErrors : LookupRejects(e)
    \/ \E value \in LookupResults : LookupResolves(value)

SpecSui == SuiInit /\ [][SuiNext]_vars

-----------------------------------------------------------------------------
(* Vocabulary of the properties *)

Range(seq) == {seq[k] : k \in 1..Len(seq)}

IsPrefix(a, b) == Len(a) <= Len(b) /\ a = SubSeq(b, 1, Len(a))

Count(seq, x) == Cardinality({k \in 1..Len(seq) : seq[k] = x})

\* The external steps of a launch that the ordering property names.
OrderedSteps ==
    <<"imageFetch", "metadataPost", "tradePost", "bodyRead",
      "deserialize", "sign", "serialize">>

NetworkRequests == {"imageFetch", "metadataPost", "tradePost"}

IsOrderedStep(step) == step \in Range(OrderedSteps)

\* Every step of a launch that returns, in the order of the code.
AllSteps ==
    <<"imageFetch", "imageBlob", "metadataPost", "metadataJson", "tradePost",
      "bodyRead", "deserialize", "sign", "serialize">>

Ended(i) == pc[i] \in {"returned", "thrown"}

\* The signature the mint keypair of launch i makes.
MintSignature(i) ==
    [key |-> mintKeypair[i][1].publicKey, by |-> mintKeypair[i][1].secretKey]

-----------------------------------------------------------------------------
-----------------------------------------------------------------------------
\* C2: the mint of the trade request is the public key of the keypair the
\* launch generated, the launch generates one keypair only, and a returned
\* transaction carries the signature of that same keypair under the key that
\* was sent as mint.
KeypairInvariant ==
    \A i \in Launches :
        /\ generated[i] <= 1
        /\ pc[i] # "idle" => generated[i] = 1 /\ mintKeypair[i] # <<>>
        /\ request[i] # <<>> =>
              request[i][1].mint = mintKeypair[i][1].publicKey
        /\ result[i] # <<>> =>
              /\ request[i] # <<>>
              /\ [key |-> request[i][1].mint, by |-> mintKeypair[i][1].secretKey]
                    \in result[i][1].bytes.signatures
              /\ PublicKeyOf(mintKeypair[i][1].secretKey) = request[i][1].mint

\* C2 witness: a launch returned a signed transaction.
KeypairInvariantWitness ==
    \E i \in Launches :
        /\ pc[i] = "returned"
        /\ request[i] # <<>>
        /\ result[i][1].bytes.signatures # {}

-----------------------------------------------------------------------------
\* C3: the named steps start in the order image fetch, metadata POST, trade
\* POST, body read, deserialize, sign, serialize; each starts only when the
\* one before it has completed successfully; each network request is issued
\* at most once; the trade POST is issued only after an ok metadata status
\* and a parsed body.
OneShotOrdering ==
    \A i \in Launches :
        LET ordered == SelectSeq(trace[i], IsOrderedStep)
        IN  /\ IsPrefix(ordered, OrderedSteps)
            /\ \A k \in 1..(Len(ordered) - 1) : ordered[k] \in Range(done[i])
            /\ \A r \in NetworkRequests : Count(trace[i], r) <= 1
            /\ "tradePost" \in Range(trace[i]) =>
                  /\ metadataHttp[i] # <<>>
                  /\ Ok(metadataHttp[i][1].status)
                  /\ metadataResponse[i] # <<>>
                  /\ "metadataJson" \in Range(done[i])

\* C3 witness: a launch went through all the named steps and returned.
OneShotOrderingWitness ==
    \E i \in Launches :
        /\ pc[i] = "returned"
        /\ SelectSeq(trace[i], IsOrderedStep) = OrderedSteps

-----------------------------------------------------------------------------
-----------------------------------------------------------------------------
-----------------------------------------------------------------------------
\* C9: a launch that failed threw the very error its step raised; its catch
\* block first logged the error, then logged the logs exactly when the error
\* is an Error with a "logs" field, then threw; and a launch whose catch
\* block ran has thrown.
ErrorPropagatesUnmodified ==
    \A i \in Launches :
        /\ raised[i] # <<>> => thrown[i] = raised[i]
        /\ catchTrace[i] # <<>> => pc[i] = "thrown" /\ raised[i] # <<>>
        /\ pc[i] = "thrown" =>
              LET e == raised[i][1]
                  t == catchTrace[i]
                  withLogs == e.isError /\ e.hasLogs
              IN  /\ Len(t) = IF withLogs THEN 3 ELSE 2
                  /\ t[1].effect = "console.error" /\ t[1].error = e
                  /\ withLogs =>
                        /\ t[2].effect = "console.error"
                        /\ t[2].label = "Transaction logs:"
                        /\ t[2].logs = e.logs
                  /\ t[Len(t)].effect = "throw" /\ t[Len(t)].error = e

\* C9 witness: one launch threw an Error with logs, another threw a value
\* that has logs but is no Error.
ErrorPropagatesUnmodifiedWitness ==
    \E i, j \in Launches :
        /\ pc[i] = "thrown" /\ thrown[i][1].isError /\ thrown[i][1].hasLogs
        /\ Len(catchTrace[i]) = 3
        /\ pc[j] = "thrown" /\ ~thrown[j][1].isError /\ thrown[j][1].hasLogs
        /\ Len(catchTrace[j]) = 2

-----------------------------------------------------------------------------
\* Everything launch i holds.
Local(i) ==
    <<pc[i], mintKeypair[i], generated[i], options[i], trace[i], done[i],
      imageResponse[i], metadataHttp[i], metadataResponse[i], request[i],
      tradeHttp[i], tradeText[i], imageFailure[i], raised[i], thrown[i],
      result[i], catchTrace[i]>>

\* C10: no step changes what two launches hold, so no launch's outcome
\* depends on another's; launches hold different keypairs; the request of a
\* launch is built from its own keypair and its own metadata result, and the
\* transaction it returns is signed by its own keypair.
LaunchesIsolated ==
    /\ [][\A i, j \in Launches :
            (i # j /\ Local(i)' # Local(i)) => Local(j)' = Local(j)]_vars
    /\ [](\A i, j \in Launches :
            (i # j /\ mintKeypair[i] # <<>> /\ mintKeypair[j] # <<>>) =>
                mintKeypair[i][1].publicKey # mintKeypair[j][1].publicKey)
    /\ [](\A i \in Launches :
            /\ request[i] # <<>> =>
                  /\ request[i][1].mint = mintKeypair[i][1].publicKey
                  /\ request[i][1].tokenMetadata.uri
                        = metadataResponse[i][1].metadataUri
                  /\ request[i][1].tokenMetadata.name
                        = metadataResponse[i][1].metadata.name
            /\ result[i] # <<>> =>
                  \A sig \in result[i][1].bytes.signatures :
                      sig.by = mintKeypair[i][1].secretKey)

\* C10 witness: two launches both sent their trade request; one returned and
\* the other threw.
LaunchesIsolatedWitness ==
    \E i, j \in Launches :
        /\ i # j
        /\ request[i] # <<>> /\ request[j] # <<>>
        /\ pc[i] = "returned"
        /\ pc[j] = "thrown"

-----------------------------------------------------------------------------
\* C8: in the payload, amount, slippage and priorityFee are the defaults 0,
\* 10 and 0.0001 when initialBuyAmount, slippageBps and priorityFee are
\* absent, and the supplied value whenever one is supplied, a supplied 0
\* included.
DefaultsOnlyWhenAbsent ==
    ctPayload # <<>> =>
        LET opts == ctOptions[1]
            payload == ctPayload[1]
        IN  /\ payload.amount =
                  IF "initialBuyAmount" \in DOMAIN opts
                  THEN opts["initialBuyAmount"] ELSE DefaultAmount
            /\ payload.slippage =
                  IF "slippageBps" \in DOMAIN opts
                  THEN opts["slippageBps"] ELSE DefaultSlippage
            /\ payload.priorityFee =
                  IF "priorityFee" \in DOMAIN opts
                  THEN opts["priorityFee"] ELSE DefaultPriorityFee

-----------------------------------------------------------------------------
\* C4: a call of validateSuiAddress returns exactly when the string starts
\* with "0x" and is 66 characters long; otherwise it throws an error whose
\* message includes the string; and all calls made with one string end the
\* same way.
AddressValidatorExact ==
    \A k \in 1..Len(addressCalls) :
        LET str == address[1]
            valid == /\ Len(str) = 66
                     /\ str[1] = "0"
                     /\ str[2] = "x"
        IN  /\ addressCalls[k].threw <=> ~valid
            /\ addressCalls[k].threw =>
                  /\ addressCalls[k].error # <<>>
                  /\ Includes(addressCalls[k].error[1].message, str)
            /\ ~addressCalls[k].threw => addressCalls[k].error = <<>>
            /\ addressCalls[k] = addressCalls[1]

\* C4 witness: a valid address was validated twice and both calls returned.
AddressValidatorExactWitness ==
    /\ Len(addressCalls) = 2
    /\ Len(address[1]) = 66
    /\ StartsWith(address[1], <<"0", "x">>)
    /\ ~addressCalls[1].threw
    /\ ~addressCalls[2].threw

-----------------------------------------------------------------------------
\* C5: validateSuiCoinType throws when the lookup rejected and when it
\* resolved with null or undefined, and returns when it resolved with an
\* object; what it throws is, in both cases, a new Error whose message is
\* built from the coin type alone.
CoinTypeErrorGeneric ==
    /\ coinPc = "thrown" <=>
          /\ coinLookup # <<>>
          /\ \/ coinLookup[1].rejected
             \/ coinLookup[1].value.kind \in {"null", "undefined"}
    /\ coinPc = "returned" <=>
          /\ coinLookup # <<>>
          /\ ~coinLookup[1].rejected
          /\ coinLookup[1].value.kind = "object"
    /\ coinPc = "thrown" =>
          coinThrown =
              <<[isError |-> TRUE, hasLogs |-> FALSE, logs |-> <<>>,
                 message |-> <<coinType[1], " is not a valid Sui coin type.">>]>>
    /\ coinPc # "thrown" => coinThrown = <<>>

\* C5 witness: the lookup rejected with an error that carries logs and the
\* validator threw.
CoinTypeErrorGenericWitness ==
    /\ coinPc = "thrown"
    /\ coinLookup[1].rejected
    /\ coinLookup[1].error.hasLogs

====
